---- MODULE Spec2Model ----
(***************************************************************************)
(* Model of src/platform/posix/posix_clock.c: nni_clock and nni_msleep in  *)
(* the three variants the preprocessor can select:                         *)
(*   build = "posix"         clock_gettime + nanosleep      (lines 82-109) *)
(*   build = "apple"         clock_gettime when the runtime check of line  *)
(*                           37 succeeds, else mach_absolute_time, and     *)
(*                           nanosleep                      (lines 34-62)  *)
(*   build = "gettimeofday"  gettimeofday + poll            (lines 126-170)*)
(* The platform clock hw counts nanoseconds since boot for the posix and   *)
(* apple builds and microseconds of wall-clock time for the gettimeofday   *)
(* build.  Under Spec thread "main" measures a sleep (before = nni_clock(); *)
(* nni_msleep(d); after = nni_clock()); under ClockSpec the threads "main"  *)
(* and "peer" call nni_clock concurrently, again and again.                 *)
(***************************************************************************)
EXTENDS Integers, Sequences, FiniteSets, TLC

\* ------------------------------------------------------------------ bounds
\* number of times the scheduler lets time pass between two program steps
MaxAdvances == 2
\* number of early returns (EINTR, spurious wake-ups) of nanosleep / poll
MaxInterrupts == 2
\* number of times the administrator sets the wall clock (gettimeofday build)
MaxAdjust == 1
\* width of C's int, scaled down from 32 so that TLC can enumerate a wrap
IntBits == 12

IntMax == 2 ^ (IntBits - 1) - 1

Threads == {"main", "peer"}

\* --------------------------------------------------------------- variables
VARIABLES
    build,      \* which variant was compiled
    avail,      \* apple build: __builtin_available(macOS 10.12, *)
    timebase,   \* apple build: what mach_timebase_info reports
    hw,         \* the platform clock (ns, or us of wall time)
    aborted,    \* "no", "panic" (nni_panic) or "trap" (division by zero)
    pc,         \* pc[t]: where thread t is
    q,          \* q[t]: the nni_clock call thread t has in flight
    retFailed,  \* history: nni_clock returned a value though its query failed
    maxRet,     \* greatest value any completed nni_clock call returned
    d,          \* main: the duration given to nni_msleep
    before,     \* main: nni_clock() before nni_msleep
    after,      \* main: nni_clock() after nni_msleep
    ts,         \* nni_msleep (nanosleep variant): struct timespec ts
    now,        \* nni_msleep (poll variant): now
    expire,     \* nni_msleep (poll variant): expire
    ncalls,     \* history: calls of nanosleep / poll made by this nni_msleep
    req,        \* history: the timeout given to the latest such call
    rem,        \* history: what the latest call wrote back / how it ended
    slept,      \* history: platform time spent inside those calls
    intr,       \* history: early returns so far
    advances,   \* history: Advance steps so far
    adjusts,    \* history: SetClock steps so far
    wallBack    \* history: the wall clock was set backward since nni_msleep
                \* read it at entry (or, before that, since the start)

clockVars == <<q, retFailed, maxRet>>
mainVars == <<d, before, after>>
sleepVars == <<ts, now, expire, ncalls, req, rem, slept, intr>>
envVars == <<build, avail, timebase>>
vars == <<build, avail, timebase, hw, aborted, pc, q, retFailed, maxRet, d,
          before, after, ts, now, expire, ncalls, req, rem, slept, intr,
          advances, adjusts, wallBack>>

\* ------------------------------------------------------- the platform side
\* which time query nni_clock ends up using
Path == IF build = "gettimeofday" THEN "gettimeofday"
        ELSE IF build = "posix" \/ avail THEN "clock_gettime"
        ELSE "mach"

\* clock_gettime(NNG_USE_CLOCKID, &ts) on a clock that stands at h ns
clock_gettime(h) == [tv_sec |-> h \div 1000000000, tv_nsec |-> h % 1000000000]

\* gettimeofday(&tv, NULL) on a wall clock that stands at h us
gettimeofday(h) == [tv_sec |-> h \div 1000000, tv_usec |-> h % 1000000]

\* mach_absolute_time() on a clock that stands at h ns, tb the tick scale
mach_absolute_time(h, tb) == (h * tb.denom) \div tb.numer

\* scale factors mach_timebase_info can report
TimeBases == {[numer |-> 1, denom |-> 1], [numer |-> 125, denom |-> 3]}

\* what the uninitialised time_base_info can hold when mach_timebase_info
\* fails and leaves it alone
Garbage == {[numer |-> 0, denom |-> 0], [numer |-> 1, denom |-> 1],
            [numer |-> 7, denom |-> 2]}

\* a timespec as a number of nanoseconds, and back
TsNs(t) == t.tv_sec * 1000000000 + t.tv_nsec
NsTs(n) == [tv_sec |-> n \div 1000000000, tv_nsec |-> n % 1000000000]

\* conversion of an unsigned value to C's int
ToInt(x) == LET m == x % (2 ^ IntBits)
            IN  IF m > IntMax THEN m - 2 ^ IntBits ELSE m

\* ------------------------------------------------------ the code's pieces
\* two conversions the code does not make: one that drops the seconds, one
\* that rounds to the nearest millisecond
TimespecToMsNoSec(t) == t.tv_nsec \div 1000000
TimespecToMsRound(t) == t.tv_sec * 1000 + (t.tv_nsec + 500000) \div 1000000

\* lines 87-89 (and 43-45): msec = ts.tv_sec; msec *= 1000;
\*                          msec += ts.tv_nsec / 1000000
TimespecToMs(t) ==
    LET m1 == t.tv_sec
        m2 == m1 * 1000
    IN  m2 + (t.tv_nsec \div 1000000)

\* lines 137-139: ms = tv.tv_sec; ms *= 1000; ms += tv.tv_usec / 1000
TimevalToMs(tv) ==
    LET m1 == tv.tv_sec
        m2 == m1 * 1000
    IN  m2 + (tv.tv_usec \div 1000)

\* line 62: ((absolute_time * numer) / denom) / 10000000
MachToMs(absolute_time, time_base_info) ==
    ((absolute_time * time_base_info.numer) \div time_base_info.denom)
        \div 10000000

\* a conversion the code does not make: the fraction in microseconds
MsToTimespecMicro(ms) ==
    [tv_sec |-> ms \div 1000, tv_nsec |-> (ms % 1000) * 1000]

\* lines 100-101: ts.tv_sec = ms / 1000; ts.tv_nsec = (ms % 1000) * 1000000
MsToTimespec(ms) ==
    [tv_sec |-> ms \div 1000, tv_nsec |-> (ms % 1000) * 1000000]

\* line 104: while (ts.tv_sec || ts.tv_nsec)
NanosleepLoopCond(t) == t.tv_sec # 0 \/ t.tv_nsec # 0

\* a test the code does not make: leave the loop whatever nanosleep returned
NanosleepBreakAlways(rv) == TRUE

\* line 105: if (nanosleep(&ts, &ts) == 0) break;
NanosleepBreak(rv) == rv = 0

\* two loop conditions the code does not use
PollLoopCondLe(n, e) == n <= e
PollLoopCondNe(n, e) == n # e

\* line 166: while (now < expire)
PollLoopCond(n, e) == n < e

\* a timeout the code does not pass: the expiry instead of the time left
PollTimeoutAbs(n, e) == ToInt(e)

\* line 167: (int) (expire - now)
PollTimeout(n, e) == ToInt(e - n)


\* --------------------------------------------------------------- the inputs
\* where the platform clock can stand when the threads start
InitHw == CASE Path = "clock_gettime" -> {0, 999700000}
            [] Path = "mach"          -> {0, 99700000}
            [] OTHER                  -> {2 ^ (IntBits - 1) * 1000 + 999700}

\* the durations main asks for (nni_duration is a signed int, here >= 0)
Durations == CASE Path = "clock_gettime" -> {0, 2, 999, 1000, 1001}
               [] Path = "mach"          -> {0, 1, 30}
               [] OTHER                  -> {0, IntMax}

\* how much time passes in one Advance step, in units of hw
Deltas == IF Path = "gettimeofday" THEN {400} ELSE {400000}

\* how long a nanosleep asked to sleep r ns can have slept when it is
\* interrupted
Early(r) == {0, r \div 2, r}

\* how long a poll asked to wait r us can have waited when it returns early
\* (r < 0: poll waits without limit)
EarlyPoll(r) == IF r < 0 THEN {0, 600} ELSE {0, r \div 2}

\* by how much the administrator moves the wall clock forward and backward,
\* in us
JumpsForward == {1500}
JumpsBackward == {1500, 2 ^ (IntBits - 1) * 1000}

\* hw stays below this (TLC's integers are 32 bits wide)
HwCap == CASE Path = "clock_gettime" -> 2100 * 1000000
           [] Path = "mach"          -> 700 * 1000000
           [] OTHER                  -> 100 * 1000000

NoCall == [site |-> "none", tv |-> <<>>, raw |-> 0, floor |-> 0,
           failed |-> FALSE]
NoTs == [tv_sec |-> 0, tv_nsec |-> 0]
NoRem == [rv |-> 0, ts |-> NoTs]

Setup(mainPc, peerPc) ==
    /\ build \in {"posix", "apple", "gettimeofday"}
    /\ avail \in (IF build = "apple" THEN BOOLEAN ELSE {FALSE})
    /\ timebase \in (IF build = "apple" /\ ~avail THEN TimeBases
                     ELSE {[numer |-> 1, denom |-> 1]})
    /\ hw \in InitHw
    /\ aborted = "no"
    /\ pc = [t \in Threads |-> IF t = "main" THEN mainPc ELSE peerPc]
    /\ q = [t \in Threads |-> NoCall]
    /\ retFailed = FALSE
    /\ maxRet = 0
    /\ before = 0
    /\ after = 0
    /\ ts = NoTs
    /\ now = 0
    /\ expire = 0
    /\ ncalls = 0
    /\ req = NoTs
    /\ rem = NoRem
    /\ slept = 0
    /\ intr = 0
    /\ advances = 0
    /\ adjusts = 0
    /\ wallBack = FALSE

\* main is about to measure a sleep of d, peer does nothing
Init == Setup("call_before", "idle") /\ d \in Durations

\* both threads are about to call nni_clock
InitClock == Setup("call_free", "call_free") /\ d = 0

\* -------------------------------------------------------------- nni_clock
CallSites == {"call_before", "call_entry", "call_loop", "call_after",
              "call_free"}

\* where a thread continues when the call made at site returns
RetPc(site) == CASE site = "call_before" -> "msleep"
                 [] site = "call_entry"  -> "poll_loop"
                 [] site = "call_loop"   -> "poll_loop"
                 [] site = "call_after"  -> "done"
                 [] OTHER                -> "call_free"

Max(a, b) == IF a >= b THEN a ELSE b

\* lines 82 / 38 / 133: the time query succeeds
ClockQuery(t) ==
    /\ aborted = "no"
    /\ pc[t] \in CallSites
    /\ Path \in {"clock_gettime", "gettimeofday"}
    /\ q' = [q EXCEPT ![t] =
                [site |-> pc[t],
                 tv |-> IF Path = "clock_gettime" THEN clock_gettime(hw)
                        ELSE gettimeofday(hw),
                 raw |-> hw, floor |-> maxRet, failed |-> FALSE]]
    /\ pc' = [pc EXCEPT ![t] = "clock_ret"]
    /\ wallBack' = IF pc[t] = "call_entry" THEN FALSE ELSE wallBack
    /\ UNCHANGED <<envVars, hw, aborted, retFailed, maxRet, mainVars,
                   sleepVars, advances, adjusts>>

\* lines 82-85 / 38-41 / 133-135: the time query fails, nni_panic
ClockQueryFail(t) ==
    /\ aborted = "no"
    /\ pc[t] \in CallSites
    /\ Path \in {"clock_gettime", "gettimeofday"}
    /\ aborted' = "panic"
    /\ q' = [q EXCEPT ![t] = [NoCall EXCEPT !.site = pc[t], !.failed = TRUE]]
    /\ pc' = [pc EXCEPT ![t] = "panicked"]
    /\ UNCHANGED <<envVars, hw, retFailed, maxRet, mainVars, sleepVars,
                   advances, adjusts, wallBack>>

\* line 58: uint64_t absolute_time = mach_absolute_time()
MachAbsoluteTime(t) ==
    /\ aborted = "no"
    /\ pc[t] \in CallSites
    /\ Path = "mach"
    /\ q' = [q EXCEPT ![t] =
                [site |-> pc[t],
                 tv |-> [absolute_time |-> mach_absolute_time(hw, timebase),
                         numer |-> 0, denom |-> 0],
                 raw |-> hw, floor |-> maxRet, failed |-> FALSE]]
    /\ pc' = [pc EXCEPT ![t] = "mach_info"]
    /\ UNCHANGED <<envVars, hw, aborted, retFailed, maxRet, mainVars,
                   sleepVars, advances, adjusts, wallBack>>

\* line 60: mach_timebase_info(&time_base_info), whose kern_return_t is not
\* looked at; ok says whether it succeeded, info is what time_base_info holds
MachTimebaseInfo(t, ok, info) ==
    /\ aborted = "no"
    /\ pc[t] = "mach_info"
    /\ q' = [q EXCEPT ![t].tv.numer = info.numer, ![t].tv.denom = info.denom,
                      ![t].failed = ~ok]
    /\ pc' = [pc EXCEPT ![t] = "clock_ret"]
    /\ UNCHANGED <<envVars, hw, aborted, retFailed, maxRet, mainVars,
                   sleepVars, advances, adjusts, wallBack>>

MachTimebaseInfoOk(t) == MachTimebaseInfo(t, TRUE, timebase)

\* time_base_info is not initialised (line 54) and a failed call leaves it so
MachTimebaseInfoFail(t) == \E g \in Garbage : MachTimebaseInfo(t, FALSE, g)

\* the value nni_clock computes from what the query stored
ClockValue(c) ==
    CASE Path = "clock_gettime" -> TimespecToMs(c.tv)
      [] Path = "gettimeofday"  -> TimevalToMs(c.tv)
      [] OTHER                  -> MachToMs(c.tv.absolute_time, c.tv)

\* line 62 with time_base_info.denom = 0: the division traps
MachTrap(t) ==
    /\ aborted = "no"
    /\ pc[t] = "clock_ret"
    /\ Path = "mach"
    /\ q[t].tv.denom = 0
    /\ aborted' = "trap"
    /\ pc' = [pc EXCEPT ![t] = "trapped"]
    /\ UNCHANGED <<envVars, hw, q, retFailed, maxRet, mainVars, sleepVars,
                   advances, adjusts, wallBack>>

\* lines 87-90 / 43-46 / 62 / 137-140: convert and return; the caller
\* stores the value: before = nni_clock() and after = nni_clock() in main,
\* now = nni_clock(); expire = now + ms (lines 163-164) and
\* now = nni_clock() (line 168) in nni_msleep
ClockReturn(t) ==
    /\ aborted = "no"
    /\ pc[t] = "clock_ret"
    /\ Path = "mach" => q[t].tv.denom # 0
    /\ LET r == ClockValue(q[t])
           site == q[t].site
       IN  /\ maxRet' = Max(maxRet, r)
           /\ before' = IF site = "call_before" THEN r ELSE before
           /\ after' = IF site = "call_after" THEN r ELSE after
           /\ now' = IF site \in {"call_entry", "call_loop"} THEN r ELSE now
           /\ expire' = IF site = "call_entry" THEN r + d ELSE expire
           /\ pc' = [pc EXCEPT ![t] = RetPc(site)]
    /\ retFailed' = (retFailed \/ q[t].failed)
    /\ q' = [q EXCEPT ![t] = NoCall]
    /\ UNCHANGED <<envVars, hw, aborted, d, ts, ncalls, req, rem, slept, intr,
                   advances, adjusts, wallBack>>

\* ------------------------------------------------- nni_msleep over nanosleep
\* a history counter that stops counting at MaxInterrupts + 2
Count(n) == IF n < MaxInterrupts + 2 THEN n + 1 ELSE n

\* lines 100-101
MsleepNanosleepInit ==
    /\ aborted = "no"
    /\ pc["main"] = "msleep"
    /\ build # "gettimeofday"
    /\ ts' = MsToTimespec(d)
    /\ pc' = [pc EXCEPT !["main"] = "ns_loop"]
    /\ UNCHANGED <<envVars, hw, aborted, clockVars, mainVars, now, expire,
                   ncalls, req, rem, slept, intr, advances, adjusts, wallBack>>

\* lines 104-107: one nanosleep(&ts, &ts) that takes elapsed, returns rv and
\* leaves left in ts
NanosleepCall(elapsed, rv, left) ==
    /\ aborted = "no"
    /\ pc["main"] = "ns_loop"
    /\ NanosleepLoopCond(ts)
    /\ hw + elapsed <= HwCap
    /\ hw' = hw + elapsed
    /\ ts' = left
    /\ ncalls' = Count(ncalls)
    /\ req' = ts
    /\ rem' = [rv |-> rv, ts |-> left]
    /\ slept' = slept + elapsed
    /\ pc' = [pc EXCEPT !["main"] =
                 IF NanosleepBreak(rv) THEN "call_after" ELSE "ns_loop"]
    /\ UNCHANGED <<envVars, aborted, clockVars, mainVars, now, expire,
                   advances, adjusts, wallBack>>

\* nanosleep sleeps the whole request and returns 0; ts is left alone (the
\* time it takes the thread to run again is an Advance step)
NanosleepCompletes ==
    /\ NanosleepCall(TsNs(ts), 0, ts)
    /\ UNCHANGED intr

\* nanosleep is interrupted (EINTR, -1) and writes the remaining time to ts
NanosleepInterrupted ==
    /\ intr < MaxInterrupts
    /\ intr' = intr + 1
    /\ \E e \in Early(TsNs(ts)) : NanosleepCall(e, -1, NsTs(TsNs(ts) - e))

\* line 104: the loop condition is false
NanosleepLoopExit ==
    /\ aborted = "no"
    /\ pc["main"] = "ns_loop"
    /\ ~NanosleepLoopCond(ts)
    /\ pc' = [pc EXCEPT !["main"] = "call_after"]
    /\ UNCHANGED <<envVars, hw, aborted, clockVars, mainVars, sleepVars,
                   advances, adjusts, wallBack>>

\* ------------------------------------------------------ nni_msleep over poll
\* lines 160-163: set up pfd, then call nni_clock
MsleepPollInit ==
    /\ aborted = "no"
    /\ pc["main"] = "msleep"
    /\ build = "gettimeofday"
    /\ pc' = [pc EXCEPT !["main"] = "call_entry"]
    /\ UNCHANGED <<envVars, hw, aborted, clockVars, mainVars, sleepVars,
                   advances, adjusts, wallBack>>

\* lines 166-167: one poll(&pfd, 0, timeout) that takes elapsed, then the
\* call of nni_clock of line 168
PollCall(elapsed, rv) ==
    /\ aborted = "no"
    /\ pc["main"] = "poll_loop"
    /\ PollLoopCond(now, expire)
    /\ hw + elapsed <= HwCap
    /\ hw' = hw + elapsed
    /\ ncalls' = Count(ncalls)
    /\ req' = [tv_sec |-> 0, tv_nsec |-> PollTimeout(now, expire)]
    /\ rem' = [rv |-> rv, ts |-> NoTs]
    /\ slept' = slept + elapsed
    /\ pc' = [pc EXCEPT !["main"] = "call_loop"]
    /\ UNCHANGED <<envVars, aborted, clockVars, mainVars, ts, now, expire,
                   advances, adjusts, wallBack>>

\* poll waits the whole timeout and returns 0 (the time it takes the thread
\* to run again is an Advance step)
PollCompletes ==
    /\ PollTimeout(now, expire) >= 0
    /\ PollCall(PollTimeout(now, expire) * 1000, 0)
    /\ UNCHANGED intr

\* poll returns early (EINTR or a spurious wake-up)
PollInterrupted ==
    /\ intr < MaxInterrupts
    /\ intr' = intr + 1
    /\ \E e \in EarlyPoll(PollTimeout(now, expire) * 1000) : PollCall(e, -1)

\* line 166: the loop condition is false
PollLoopExit ==
    /\ aborted = "no"
    /\ pc["main"] = "poll_loop"
    /\ ~PollLoopCond(now, expire)
    /\ pc' = [pc EXCEPT !["main"] = "call_after"]
    /\ UNCHANGED <<envVars, hw, aborted, clockVars, mainVars, sleepVars,
                   advances, adjusts, wallBack>>

\* --------------------------------------------------------- the environment
\* Only a time query reads hw, so the steps of the environment are taken
\* where a thread is about to make one: taken earlier they would lead to the
\* same reading.
AboutToQuery == \E t \in Threads : pc[t] \in CallSites

\* time passes between two steps of the program
Advance ==
    /\ aborted = "no"
    /\ AboutToQuery
    /\ advances < MaxAdvances
    /\ advances' = advances + 1
    /\ \E dl \in Deltas : hw + dl <= HwCap /\ hw' = hw + dl
    /\ UNCHANGED <<envVars, aborted, pc, clockVars, mainVars, sleepVars,
                   adjusts, wallBack>>

\* lines 113-120: the system clock changes while the program runs
SetClockForward ==
    /\ aborted = "no"
    /\ AboutToQuery
    /\ build = "gettimeofday"
    /\ adjusts < MaxAdjust
    /\ adjusts' = adjusts + 1
    /\ \E j \in JumpsForward : hw + j <= HwCap /\ hw' = hw + j
    /\ UNCHANGED <<envVars, aborted, pc, clockVars, mainVars, sleepVars,
                   advances, wallBack>>

SetClockBackward ==
    /\ aborted = "no"
    /\ AboutToQuery
    /\ build = "gettimeofday"
    /\ adjusts < MaxAdjust
    /\ adjusts' = adjusts + 1
    /\ \E j \in JumpsBackward : hw >= j /\ hw' = hw - j
    /\ wallBack' = TRUE
    /\ UNCHANGED <<envVars, aborted, pc, clockVars, mainVars, sleepVars,
                   advances>>

\* ------------------------------------------------------- the specifications
ClockStep(t) ==
    \/ ClockQuery(t)
    \/ ClockQueryFail(t)
    \/ MachAbsoluteTime(t)
    \/ MachTimebaseInfoOk(t)
    \/ MachTimebaseInfoFail(t)
    \/ MachTrap(t)
    \/ ClockReturn(t)

MsleepStep ==
    \/ MsleepNanosleepInit
    \/ NanosleepCompletes
    \/ NanosleepInterrupted
    \/ NanosleepLoopExit
    \/ MsleepPollInit
    \/ PollCompletes
    \/ PollInterrupted
    \/ PollLoopExit

EnvStep ==
    \/ Advance
    \/ SetClockForward
    \/ SetClockBackward

\* main measures a sleep
Next == ClockStep("main") \/ MsleepStep \/ EnvStep

Spec == Init /\ [][Next]_vars

\* main does not stop while it can take a step: a thread that is runnable is
\* scheduled, and nanosleep and poll return
FairSpec == Spec /\ WF_vars(ClockStep("main") \/ MsleepStep)

\* the threads call nni_clock concurrently
NextClock == (\E t \in Threads : ClockStep(t)) \/ EnvStep

ClockSpec == InitClock /\ [][NextClock]_vars


\* ------------------------------------------------------------ vocabulary
\* the call site main is at (the site of its nni_clock call while inside one)
Site == IF pc["main"] \in {"mach_info", "clock_ret", "panicked", "trapped"}
        THEN q["main"].site ELSE pc["main"]

\* main is inside nni_msleep
InMsleep == Site \in {"msleep", "ns_loop", "call_entry", "poll_loop",
                      "call_loop"}

\* nni_msleep has returned to main
MsleepReturned == Site \in {"call_after", "done"}

\* thread t is about to return a value from nni_clock
Returning(t) == /\ aborted = "no"
                /\ pc[t] = "clock_ret"
                /\ Path = "mach" => q[t].tv.denom # 0

UsesNanosleep == build # "gettimeofday"

\* ------------------------------------------------------------------- C1
\* C1: a sleep of d measured with nni_clock lasts at least d:
\* after - before >= d on every backend.  (Fails: line 62 divides by
\* 10000000, so the mach clock counts units of 10 ms.)
C1_SleepLowerBound == pc["main"] = "done" => after - before >= d

\* ------------------------------------------------------------------- C2
\* C2: on the nanosleep variant an interrupted nanosleep that left time to
\* sleep does not end nni_msleep: the loop goes on with the time the call
\* wrote back, and when nni_msleep has returned the time spent in nanosleep
\* adds up to at least d milliseconds.
C2_InterruptionResilience ==
    UsesNanosleep =>
        /\ (ncalls > 0 /\ rem.rv # 0 /\ TsNs(rem.ts) > 0)
               => (pc["main"] = "ns_loop" /\ ts = rem.ts)
        /\ MsleepReturned => slept >= d * 1000000

C2_Witness ==
    /\ UsesNanosleep
    /\ MsleepReturned
    /\ intr >= 1
    /\ ncalls >= 2
    /\ d = 2
    /\ TsNs(req) = 1000000

C4_ScaleFactor ==
    \A t \in Threads :
        (Path = "mach" /\ Returning(t) /\ ~q[t].failed) =>
            ClockValue(q[t]) =
                ((q[t].tv.absolute_time * q[t].tv.numer) \div q[t].tv.denom)
                    \div 1000000

\* ------------------------------------------------------------------- C5
\* C5: a failed time query aborts the process with a diagnostic (nni_panic)
\* and nni_clock returns nothing; without a failed query nothing aborts.
C5_FatalTimeSourceFailure ==
    /\ \A t \in Threads : q[t].failed => aborted = "panic"
    /\ ~retFailed
    /\ aborted # "no" => \E t \in Threads : q[t].failed

C7_ZeroSleep ==
    d = 0 =>
        /\ ncalls <= 1
        /\ ncalls = 1 => (req.tv_sec = 0 /\ req.tv_nsec = 0)
        /\ slept = 0
        /\ pc["main"] = "ns_loop" => ~NanosleepLoopCond(ts)
        /\ pc["main"] = "poll_loop" => ~PollLoopCond(now, expire)
        /\ pc["main"] # "call_loop"

C7_Witness == d = 0 /\ pc["main"] = "done" /\ build = "gettimeofday"

\* ------------------------------------------------------------------- C8
\* C8: with clock_gettime nni_clock returns tv_sec*1000 + tv_nsec/1000000,
\* with gettimeofday tv_sec*1000 + tv_usec/1000; that is the floor of the
\* platform time in milliseconds, and a later platform time never gives a
\* smaller value.
C8_Floor(t) ==
    LET r == ClockValue(q[t])
    IN  /\ Path = "clock_gettime" =>
               /\ r = q[t].tv.tv_sec * 1000 + q[t].tv.tv_nsec \div 1000000
               /\ r * 1000000 <= q[t].raw
               /\ q[t].raw < (r + 1) * 1000000
        /\ Path = "gettimeofday" =>
               /\ r = q[t].tv.tv_sec * 1000 + q[t].tv.tv_usec \div 1000
               /\ r * 1000 <= q[t].raw
               /\ q[t].raw < (r + 1) * 1000

C8_ConversionTruncates ==
    Path # "mach" =>
        /\ \A t \in Threads : Returning(t) => C8_Floor(t)
        /\ \A t, u \in Threads :
               (Returning(t) /\ Returning(u) /\ q[t].raw <= q[u].raw)
                   => ClockValue(q[t]) <= ClockValue(q[u])

C8_Witness ==
    /\ Path = "clock_gettime"
    /\ Returning("main")
    /\ Returning("peer")
    /\ q["main"].tv.tv_sec = 1
    /\ q["main"].tv.tv_nsec % 1000000 >= 500000
    /\ q["peer"].raw < q["main"].raw

\* ------------------------------------------------------------------- C9
\* what holds of every poll call, whatever the wall clock did
C9_Loop ==
    /\ pc["main"] = "call_loop" =>
           /\ now < expire
           /\ req.tv_nsec = ToInt(expire - now)
    /\ (pc["main"] = "poll_loop" /\ ncalls = 0) => expire = now + d
    /\ MsleepReturned => now >= expire

\* the timeout of the poll call just made is the time that remains, as a
\* positive int no greater than d
C9_Remaining ==
    pc["main"] = "call_loop" =>
        /\ req.tv_nsec = expire - now
        /\ 0 < req.tv_nsec
        /\ req.tv_nsec <= d

\* C9 as claimed: on the gettimeofday variant every poll call gets
\* expire - now, which is positive and at most d as an int, and the loop ends
\* exactly when now >= expire.
C9_PollRemaining ==
    build = "gettimeofday" => (C9_Loop /\ C9_Remaining)

\* C9 as amended: the same, the bounds on the timeout only while the wall
\* clock has not been set backward since nni_msleep read it at entry.
C9_PollRemainingNoBackstep ==
    build = "gettimeofday" => (C9_Loop /\ (~wallBack => C9_Remaining))

C9_Witness ==
    /\ build = "gettimeofday"
    /\ pc["main"] = "call_loop"
    /\ ~wallBack
    /\ d = IntMax
    /\ ncalls >= 2
    /\ req.tv_nsec < d

\* ------------------------------------------------------------------ C10
\* what holds of the requests nni_msleep has given to nanosleep
C10_Requests ==
    UsesNanosleep =>
        /\ ncalls = 1 =>
               /\ req.tv_sec = d \div 1000
               /\ req.tv_nsec = (d % 1000) * 1000000
               /\ req.tv_sec * 1000 + req.tv_nsec \div 1000000 = d
        /\ ncalls >= 1 => (0 <= req.tv_nsec /\ req.tv_nsec <= 999999999)
        /\ MsleepReturned =>
               \/ ncalls >= 1 /\ rem.rv = 0
               \/ ts.tv_sec = 0 /\ ts.tv_nsec = 0

\* a call of nanosleep after the first asks for what the call before it,
\* which was interrupted, wrote back, and for no more than that call asked
C10_NextRequest ==
    (UsesNanosleep /\ ncalls >= 1 /\ ncalls' = ncalls + 1) =>
        /\ rem.rv # 0
        /\ req' = rem.ts
        /\ TsNs(req') <= TsNs(req)

\* C10: the first request is ms/1000 s and (ms%1000)*1000000 ns, a valid
\* timespec worth ms milliseconds; every later request is the remaining time
\* of the interrupted call before it; the loop ends only on a completed call
\* or on a remaining time of zero.
C10_ValidSleepRequests == []C10_Requests /\ [][C10_NextRequest]_vars

C10_Witness ==
    /\ UsesNanosleep
    /\ MsleepReturned
    /\ d = 1001
    /\ ncalls = 3
    /\ rem.rv = 0
    /\ TsNs(req) > 0

====
